---- MODULE Spec2Model ----
(***************************************************************************)
(* Stock ledger of the ProStock single-page application.                   *)
(*                                                                         *)
(* Several browser clients share one realtime store.  Each client holds a  *)
(* cache of the store (React state filled by the onValue subscription) and *)
(* runs the form handlers of src/unnamed/part_000 (the App component).     *)
(* A handler is a sequence of steps separated by its awaits: every         *)
(* `await set(...)` is one step in which the write reaches the store or    *)
(* fails, and the code after the await is the next step of that client.    *)
(***************************************************************************)
EXTENDS Integers, Sequences, FiniteSets, TLC

(***************************************************************************)
(* Bounds of the model.                                                    *)
(***************************************************************************)
\* largest quantity typed into a quantity field
MaxQty == 2
\* largest number of line items of a GRN or a Delivery Note
MaxLines == 2
\* largest number of genId calls in one run, and so the last millisecond of the
\* clock: a genId call reads the clock, which moves at most 1 ms between two calls
MaxClock == 5
\* largest number of writes the store refuses in one run
MaxFailures == 1
\* largest number of movements of a ledger found in the store at start-up
MaxLedger == 3

\* longest list of dated movements, and of documents of one kind, the dashboard is
\* computed from
MaxDated == 2
MaxDocs == 1

Clients == {"c1", "c2"}

\* JavaScript's undefined for an optional string field, for an optional id, and
\* null for currentUser
Undefined == "undefined"
NoId == <<>>
NoUser == [username |-> "", role |-> ""]

(***************************************************************************)
(* Identifiers: src/src/utils.ts genId.  An id is the millisecond read     *)
(* from Date.now() and the random suffix.                                  *)
(***************************************************************************)
Suffixes == {0}

genId(ms, r) == <<ms, r>>

\* order of the keys of one collection, as the store returns its children
IdLess(a, b) == a[1] < b[1] \/ (a[1] = b[1] /\ a[2] < b[2])

(***************************************************************************)
(* The store: every collection is a set of records keyed by their id.      *)
(***************************************************************************)
\* set(ref(db, `${CLOUD_ROOT}/<coll>/${id}`), rec): a full overwrite of one key
dbSet(coll, rec) == {x \in coll : x.id # rec.id} \cup {rec}

\* Object.values(node): the children of a node in key order
RECURSIVE ObjectValues(_)
ObjectValues(coll) ==
    IF coll = {} THEN <<>>
    ELSE LET first == CHOOSE x \in coll : \A y \in coll : y.id = x.id \/ IdLess(x.id, y.id)
         IN  <<first>> \o ObjectValues(coll \ {first})

\* Array.prototype.filter with the predicate given as the set of kept elements
RECURSIVE Filter(_, _)
Filter(seq, keep) ==
    IF seq = <<>> THEN <<>>
    ELSE (IF Head(seq) \in keep THEN <<Head(seq)>> ELSE <<>>) \o Filter(Tail(seq), keep)

Range(seq) == {seq[i] : i \in 1..Len(seq)}

(***************************************************************************)
(* Balance Reducer: computeBalance.                                        *)
(***************************************************************************)
\* m.quantity || m.qty || 0  (0 stands for an absent alias: both are falsy)
Quantity(m) == IF m.quantity # 0 THEN m.quantity ELSE IF m.qty # 0 THEN m.qty ELSE 0

\* variants of the reducer callback: OUT added like IN; either key matched
BalanceStep_Unsigned(sum, m, productId, isFG) ==
    LET id == IF isFG THEN m.fgId ELSE m.productId
    IN  IF id = productId THEN sum + (IF m.quantity # 0 THEN m.quantity ELSE m.qty) ELSE sum

BalanceStep_AnyKey(sum, m, productId, isFG) ==
    IF m.fgId = productId \/ m.productId = productId
    THEN sum + (IF m.type = "IN" THEN m.quantity ELSE -m.quantity)
    ELSE sum

\* the reducer callback of computeBalance
BalanceStep(sum, m, productId, isFG) ==
    LET id == IF isFG THEN m.fgId ELSE m.productId
    IN  IF id = productId
        THEN sum + (IF m.type = "IN" THEN Quantity(m) ELSE -Quantity(m))
        ELSE sum

\* movements.reduce(callback, 0), left to right
RECURSIVE Reduce(_, _, _, _)
Reduce(movs, sum, productId, isFG) ==
    IF movs = <<>> THEN sum
    ELSE Reduce(Tail(movs), BalanceStep(sum, Head(movs), productId, isFG), productId, isFG)

computeBalance(movs, productId, isFG) == Reduce(movs, 0, productId, isFG)

(***************************************************************************)
(* Threshold / alert evaluator of renderDashboard.                         *)
(***************************************************************************)
\* variant: the threshold itself is not low stock
isLowStock_Strict(movs, p, isFG) == computeBalance(movs, p.id, isFG) < p.threshold

isLowStock(movs, p, isFG) == computeBalance(movs, p.id, isFG) <= p.threshold

renderDashboard(c_cache) ==
    [ lowStockRM |-> Filter(c_cache.rmProducts,
                            {p \in Range(c_cache.rmProducts) : isLowStock(c_cache.movements, p, FALSE)}),
      lowStockFG |-> Filter(c_cache.fgProducts,
                            {p \in Range(c_cache.fgProducts) : isLowStock(c_cache.movements, p, TRUE)}) ]

(***************************************************************************)
(* Dates.  A date string 'yyyy-MM-dd' is the number of its day.  new Date() *)
(* is a local day and hour in a time zone; the zone's offset from UTC, in  *)
(* hours, is `before` up to the local day `change` and `after` from it on. *)
(***************************************************************************)
Window == 14

ZoneOffset(zone, day) == IF day >= zone.change THEN zone.after ELSE zone.before

\* todayISO(): format(new Date(), 'yyyy-MM-dd'), the local date
todayISO(n) == n.day

\* d.toISOString().split('T')[0]: the UTC date of a local day and hour
toISODate(day, hour, zone) == (24 * day + hour - ZoneOffset(zone, day)) \div 24

\* new Date(date).toLocaleDateString(...): the local date at the UTC midnight
\* that the date string parses to
toLocaleDate(date, zone) == (24 * date + ZoneOffset(zone, date)) \div 24

\* Array.from({ length: 14 }, (_, i) => ...): d.setDate(d.getDate() - (13 - i))
\* keeps the local hour, toISOString() then gives the UTC date (i counts from 1 here)
last14Days(n) == [i \in 1..Window |-> toISODate(n.day - (Window - i), n.hour, n.zone)]

\* .reduce((s, m) => s + (m.quantity || m.qty || 0), 0)
RECURSIVE SumQuantity(_, _)
SumQuantity(movs, s) ==
    IF movs = <<>> THEN s ELSE SumQuantity(Tail(movs), s + Quantity(Head(movs)))

\* last14Days.map(date => ...)
chartData(movements, n) ==
    [i \in 1..Window |->
        LET date == last14Days(n)[i]
            dayMoves == Filter(movements, {m \in Range(movements) : m.date = date})
        IN  [ date |-> toLocaleDate(date, n.zone),
              in |-> SumQuantity(Filter(dayMoves, {m \in Range(dayMoves) : m.type = "IN"}), 0),
              out |-> SumQuantity(Filter(dayMoves, {m \in Range(dayMoves) : m.type = "OUT"}), 0) ]]

\* variant: every document issued up to today is counted
docsToday_UpToToday(c_cache, n) ==
    LET today == todayISO(n)
    IN  Len(Filter(c_cache.bills, {b \in Range(c_cache.bills) : b.date <= today})
            \o Filter(c_cache.deliveryNotes, {d \in Range(c_cache.deliveryNotes) : d.date <= today})
            \o Filter(c_cache.productions, {p \in Range(c_cache.productions) : p.date <= today}))

\* [...bills.filter(b => b.date === today), ...deliveryNotes.filter(...),
\*  ...productions.filter(...)].length
docsToday(c_cache, n) ==
    LET today == todayISO(n)
    IN  Len(Filter(c_cache.bills, {b \in Range(c_cache.bills) : b.date = today})
            \o Filter(c_cache.deliveryNotes, {d \in Range(c_cache.deliveryNotes) : d.date = today})
            \o Filter(c_cache.productions, {p \in Range(c_cache.productions) : p.date = today}))

\* renderDashboard with its document count and its chart
renderDashboardAt(c_cache, n) ==
    [ lowStockRM |-> renderDashboard(c_cache).lowStockRM,
      lowStockFG |-> renderDashboard(c_cache).lowStockFG,
      docsToday |-> docsToday(c_cache, n),
      chartData |-> chartData(c_cache.movements, n) ]

(***************************************************************************)
(* Permissions.  The component calls can() once, for the Users item of the *)
(* sidebar; no page and no handler asks it.                                *)
(***************************************************************************)
ROLE_PERMISSIONS ==
    [ admin |-> {"*"},
      power |-> {"dashboard:view",
                 "rm:view", "rm:add", "rm:edit", "rm:delete", "rm:stockin", "rm:stockout",
                 "rm:history:view", "rm:report:print",
                 "fg:view", "fg:add", "fg:edit", "fg:delete", "fg:stockin", "fg:stockout",
                 "fg:report:print",
                 "boe:view", "boe:create", "boe:edit", "boe:delete", "boe:print",
                 "dn:view", "dn:create", "dn:edit", "dn:delete", "dn:print",
                 "prod:view", "prod:create", "prod:print",
                 "suppliers:view", "suppliers:add", "suppliers:edit", "suppliers:delete",
                 "audit:view"},
      manager |-> {"dashboard:view",
                   "rm:view", "rm:add", "rm:edit", "rm:stockin", "rm:stockout", "rm:history:view",
                   "fg:view", "fg:add", "fg:edit", "fg:stockin", "fg:stockout",
                   "boe:view", "boe:create", "boe:edit", "boe:print",
                   "dn:view", "dn:create", "dn:print",
                   "prod:view", "prod:create",
                   "suppliers:view", "suppliers:add", "suppliers:edit",
                   "audit:view"},
      store |-> {"dashboard:view",
                 "rm:view", "rm:stockin", "rm:stockout", "rm:history:view",
                 "boe:view", "boe:create", "boe:print",
                 "dn:view", "dn:create", "dn:print",
                 "suppliers:view", "audit:view"},
      production |-> {"dashboard:view", "rm:view", "rm:history:view", "fg:view",
                      "prod:view", "prod:create", "audit:view"},
      viewer |-> {"dashboard:view", "rm:view", "rm:history:view", "fg:view", "boe:view",
                  "dn:view", "prod:view", "suppliers:view", "audit:view"},
      operator |-> {"dashboard:view",
                    "rm:view", "rm:stockin", "rm:stockout",
                    "fg:view", "fg:stockin", "fg:stockout",
                    "prod:view", "prod:create"} ]

\* can(perm) for the user u of the session
can(u, perm) ==
    IF u = [username |-> "", role |-> ""] THEN FALSE
    ELSE LET perms == IF u.role \in DOMAIN ROLE_PERMISSIONS THEN ROLE_PERMISSIONS[u.role] ELSE {}
         IN  IF "*" \in perms THEN TRUE ELSE perm \in perms

(***************************************************************************)
(* State.                                                                  *)
(***************************************************************************)
VARIABLES
    clock,        \* Date.now(), in milliseconds
    store,        \* the tree under CLOUD_ROOT, one field per collection
    currentUser,  \* per client: the logged-in User, or NoUser
    cache,        \* per client: the data state of App (rmProducts, movements, ...)
    dashboard,    \* per client: what renderDashboard computed at the last render
    pc,           \* per client: the form handler in progress and where it stands
    failures,     \* writes the store has refused so far
    generated,    \* history: the ids genId returned, in call order, with the client
                  \* that called, the record the id was made for and the fate of its write
    now,          \* what new Date() reads: the local day and hour, and the time zone
    currentPage,  \* per client: the page the dispatch of App renders
    users         \* per client: the users state, filled by the users subscription

vars ==
    <<clock, store, currentUser, cache, dashboard, pc, failures, generated, now,
      currentPage, users>>

\* the products, suppliers and users found in the store at start-up
RMProducts == << [id |-> "r1", threshold |-> 1] >>
FGProducts == << [id |-> "f1", threshold |-> 2], [id |-> "f2", threshold |-> 0] >>
Suppliers == << [id |-> "s1"] >>
Users ==
    << [username |-> "alice", role |-> "admin", password |-> "pa"],
       [username |-> "bob", role |-> "store", password |-> "pb"] >>

RMIds == {p.id : p \in Range(RMProducts)}
FGIds == {p.id : p \in Range(FGProducts)}

EmptyStore ==
    [ products |-> RMProducts, fgProducts |-> FGProducts, suppliers |-> Suppliers,
      users |-> Users, stockMovements |-> {}, fgMovements |-> {}, bills |-> {},
      deliveryNotes |-> {}, productions |-> {}, auditLogs |-> {} ]

\* the ledger earlier sessions left in the store: stock of every item
OpeningLedger ==
    { [id |-> genId(0, 0), productId |-> "r1", fgId |-> Undefined, type |-> "IN",
       quantity |-> MaxQty, qty |-> 0, billId |-> NoId, createdBy |-> "alice"],
      [id |-> genId(0, 1), productId |-> Undefined, fgId |-> "f1", type |-> "IN",
       quantity |-> MaxQty, qty |-> 0, billId |-> NoId, createdBy |-> "alice"],
      [id |-> genId(0, 2), productId |-> Undefined, fgId |-> "f2", type |-> "IN",
       quantity |-> 1, qty |-> 0, billId |-> NoId, createdBy |-> "alice"] }

\* useState initial values of the data state (lines 261-269)
EmptyCache == [ rmProducts |-> <<>>, fgProducts |-> <<>>, suppliers |-> <<>>, movements |-> <<>> ]

\* no handler has run yet on this client; `before` is a history field: the store
\* as it was when the handler in progress was called
Idle ==
    [ flow |-> "none", step |-> "idle", why |-> "", user |-> NoUser, docId |-> NoId,
      items |-> <<>>, idx |-> 0, moves |-> <<>>, logged |-> FALSE, toast |-> "none",
      before |-> EmptyStore ]

\* time zones: UTC, one east of it, one whose clocks go forward an hour on day 15
\* and one whose clocks go back an hour on that day
UTC == [before |-> 0, after |-> 0, change |-> 0]
Zones ==
    { UTC,
      [before |-> 4, after |-> 4, change |-> 0],
      [before |-> 1, after |-> 2, change |-> 15],
      [before |-> -4, after |-> -5, change |-> 15] }

\* the hours and days at which the dashboard is looked at
Hours == <<1, 12, 19>>
Days == 20..21

\* the wall clock of the runs in which no date is looked at
Noon == [day |-> 20, hour |-> 12, zone |-> UTC]

Init ==
    /\ clock = 0
    /\ store = [EmptyStore EXCEPT !.stockMovements = OpeningLedger]
    /\ currentUser = [c \in Clients |-> NoUser]
    /\ cache = [c \in Clients |-> EmptyCache]
    /\ dashboard = [c \in Clients |-> renderDashboard(EmptyCache)]
    /\ pc = [c \in Clients |-> Idle]
    /\ failures = 0
    /\ generated = <<>>
    /\ now = Noon
    /\ currentPage = [c \in Clients |-> "dashboard"]
    /\ users = [c \in Clients |-> store.users]

(***************************************************************************)
(* Session and subscription.                                               *)
(***************************************************************************)
\* the account typed into the login form of each client
LoginAs(c) == IF c = "c1" THEN "alice" ELSE "bob"

\* the username and password that operator types
LoginForm(c) == {<<u.username, u.password>> : u \in {x \in Range(Users) : x.username = LoginAs(c)}}

\* const adminUser: User = { id: 'admin-init', username: 'admin', ... }
adminUser == [username |-> "admin", role |-> "admin", password |-> "admin"]

\* users.find(u => u.username === ... && u.password === ...): the places that match
Found(list, username, password) ==
    {k \in DOMAIN list : list[k].username = username /\ list[k].password = password}

\* handleLogin: the first-time fallback while the users state is empty, then the
\* first user of the users state with this username and password, else toast.error
handleLogin(c, username, password) ==
    /\ \A d \in Clients : pc[d].step \in {"idle", "moves", "finish"}
    /\ currentUser[c] = NoUser
    /\ IF username = "admin" /\ password = "admin" /\ Len(users[c]) = 0
       THEN /\ currentUser' = [currentUser EXCEPT ![c] = adminUser]
            /\ pc' = pc
       ELSE LET found == Found(users[c], username, password)
            IN  IF found # {}
                THEN /\ currentUser' =
                          [currentUser EXCEPT
                              ![c] = users[c][CHOOSE k \in found : \A j \in found : k <= j]]
                     /\ pc' = pc
                ELSE /\ currentUser' = currentUser
                     /\ pc' = [pc EXCEPT ![c] = [Idle EXCEPT !.flow = "login", !.step = "rejected",
                                                            !.why = "credentials", !.toast = "error"]]
    /\ UNCHANGED <<currentPage, users, clock, store, cache, dashboard, failures, generated, now>>

\* the users subscription, active from the first render whether or not a user is
\* logged in: setUsers(Object.values(data)), or setUsers([]) for an empty node
onUsers(c) ==
    /\ users[c] # store.users
    /\ users' = [users EXCEPT ![c] = store.users]
    /\ UNCHANGED <<currentPage, clock, store, currentUser, cache, dashboard, pc, failures,
                   generated, now>>

\* the pages of the dispatch that are followed
Pages == {"dashboard", "rmOut", "users", "audit"}

\* a click on a sidebar item: the User Management item is rendered only under
\* can("users:manage"), the others always
SidebarItem(c, page) ==
    /\ \A d \in Clients : pc[d].step \in {"idle", "moves", "finish"}
    /\ currentUser[c] # NoUser
    /\ page \in Pages
    /\ page = "users" => can(currentUser[c], "users:manage")
    /\ currentPage[c] # page
    /\ currentPage' = [currentPage EXCEPT ![c] = page]
    /\ UNCHANGED <<users, clock, store, currentUser, cache, dashboard, pc, failures,
                   generated, now>>

\* what App renders: renderAuth() without a user, else the page of the dispatch
Screen(c) == IF currentUser[c] = NoUser THEN "auth" ELSE currentPage[c]

\* handleLogout: the data state stays, the subscription is torn down
handleLogout(c) ==
    /\ \A d \in Clients : pc[d].step \in {"idle", "moves", "finish"}
    /\ currentUser[c] # NoUser
    /\ currentUser' = [currentUser EXCEPT ![c] = NoUser]
    /\ UNCHANGED <<currentPage, users, clock, store, cache, dashboard, pc, failures, generated, now>>

\* variant: the movements of the fgMovements node are appended without looking at
\* the ids already in the list
MergeMovements_NoFilter(data) ==
    ObjectValues(data.stockMovements) \o ObjectValues(data.fgMovements)

\* setMovements(values(stockMovements)) followed by the merge of the fgMovements
\* node: its movements whose id is not yet in the list are appended
MergeMovements(data) ==
    LET prev == ObjectValues(data.stockMovements)
        existingIds == {m.id : m \in Range(prev)}
        fgMoves == ObjectValues(data.fgMovements)
        newMoves == Filter(fgMoves, {m \in Range(fgMoves) : m.id \notin existingIds})
    IN  IF data.fgMovements # {} THEN prev \o newMoves ELSE prev

\* the onValue callback of the bundle subscription
Snapshot(data) ==
    [ rmProducts |-> data.products, fgProducts |-> data.fgProducts,
      suppliers |-> data.suppliers, movements |-> MergeMovements(data) ]

\* a push of the subscription reaches a logged-in client, which renders again
onValue(c) ==
    /\ \A d \in Clients : pc[d].step \in {"idle", "moves", "finish"}
    /\ currentUser[c] # NoUser
    /\ cache[c] # Snapshot(store)
    /\ cache' = [cache EXCEPT ![c] = Snapshot(store)]
    /\ dashboard' = [dashboard EXCEPT ![c] = renderDashboard(Snapshot(store))]
    /\ UNCHANGED <<currentPage, users, clock, store, currentUser, pc, failures, generated, now>>

(***************************************************************************)
(* What the flows share.                                                   *)
(***************************************************************************)
\* values a quantity field can hold when its form is submitted
QtyInputs == 0..MaxQty

InFlight(c) == pc[c].step \in {"moves", "finish"}

\* genId calls a handler in progress still has to make
Remaining(c) ==
    IF pc[c].step = "moves" THEN (Len(pc[c].items) - pc[c].idx + 1) + 1
    ELSE IF pc[c].step = "finish" THEN 1 ELSE 0

RECURSIVE SumRemaining(_)
SumRemaining(cs) ==
    IF cs = {} THEN 0
    ELSE LET c == CHOOSE x \in cs : TRUE IN Remaining(c) + SumRemaining(cs \ {c})

\* the clock leaves room for this handler and for those in progress
Room(c, need) == Len(generated) + need + SumRemaining(Clients \ {c}) <= MaxClock

\* The outcome of a submission (done, rejected, threw) touches nothing the clients
\* share, so it is looked at and dismissed before the next event is taken: every
\* interleaving has the same store and caches as one of this form.
Settled == \A c \in Clients : pc[c].step \in {"idle", "moves", "finish"}

\* a form is on screen: a user is logged in and no handler of this client is
\* between two awaits
Displayed(c) == Settled /\ currentUser[c] # NoUser /\ pc[c].step = "idle"

\* the toast of the last submission disappears
dismiss(c) ==
    /\ pc[c].step \in {"done", "rejected", "threw"}
    /\ pc' = [pc EXCEPT ![c] = Idle]
    /\ UNCHANGED <<currentPage, users, clock, store, currentUser, cache, dashboard, failures, generated, now>>

\* the value attributes of the <option>s of a product select
Options(products) == {p.id : p \in Range(products)} \cup {""}

\* variant: the item id stored under both keys
Movement_BothKeys(id, productId, fgId, type, quantity, billId, username) ==
    LET item == IF productId = Undefined THEN fgId ELSE productId
    IN  [ id |-> id, productId |-> item, fgId |-> item, type |-> type,
          quantity |-> quantity, qty |-> 0, billId |-> billId, createdBy |-> username ]

\* the Movement object literal the flows write
Movement(id, productId, fgId, type, quantity, billId, username) ==
    [ id |-> id, productId |-> productId, fgId |-> fgId, type |-> type,
      quantity |-> quantity, qty |-> 0, billId |-> billId, createdBy |-> username ]

\* the movement of Stock-In, Stock-Out and Production with its `date: todayISO()`
StampedMovement(n, id, productId, fgId, type, quantity, username) ==
    [date |-> todayISO(n)] @@ Movement(id, productId, fgId, type, quantity, NoId, username)

\* currentUser?.username || 'unknown'
Username(u) == IF u = NoUser \/ u.username = "" THEN "unknown" ELSE u.username

\* logAction: the audit-log write is issued and not awaited; its failure is dropped
logAction(auditLogs, u, action, entityId, logId, ok) ==
    IF ok
    THEN dbSet(auditLogs, [id |-> logId, by |-> Username(u), action |-> action, entityId |-> entityId])
    ELSE auditLogs

\* the history after one more genId call
Generated(c, id, kind, ok) == Append(generated, [id |-> id, by |-> c, kind |-> kind, ok |-> ok])

\* a write reaches the store (TRUE) or is refused (FALSE)
Outcomes == IF failures < MaxFailures THEN BOOLEAN ELSE {TRUE}

\* the submission ends before any write
Rejected(c, flow, why, idx, toast) ==
    /\ pc' = [pc EXCEPT ![c] = [Idle EXCEPT !.flow = flow, !.step = "rejected",
                                            !.why = why, !.idx = idx, !.toast = toast]]
    /\ UNCHANGED <<currentPage, users, clock, store, currentUser, cache, dashboard, failures, generated, now>>

\* a rejected await: the handler ends there with an unhandled rejection
Threw(flow) == [Idle EXCEPT !.flow = flow, !.step = "threw"]

(***************************************************************************)
(* Stock forms: renderRMIn, renderRMOut, renderFGIn, renderFGOut.          *)
(***************************************************************************)
\* constraint validation of a stock form: <select required>, <input required min="1">
StockFormValid(sel, qty) == sel # "" /\ qty >= 1

\* variant: the balance check never fires
Insufficient_Off(qty, bal) == FALSE

\* if (qty > bal) of the Stock-Out handlers and of the Delivery Note check
Insufficient(qty, bal) == qty > bal

\* the handler after its guards: genId, the Movement literal, await set(...)
WriteStock(c, flow, move, item, dt) ==
    /\ Room(c, 2)
    /\ clock' = clock + dt
    /\ \E ok \in Outcomes :
          /\ failures' = IF ok THEN failures ELSE failures + 1
          /\ store' = IF ok THEN [store EXCEPT !.stockMovements = dbSet(@, move)] ELSE store
          /\ generated' = Generated(c, move.id, "move", ok)
          /\ pc' = [pc EXCEPT ![c] =
                      IF ok THEN [Idle EXCEPT !.flow = flow, !.step = "finish",
                                              !.user = currentUser[c], !.items = <<item>>,
                                              !.idx = 2, !.moves = <<move.id>>,
                                              !.before = store]
                      ELSE Threw(flow)]
    /\ UNCHANGED <<currentPage, users, currentUser, cache, dashboard, now>>

\* variant: the audit-log write is awaited, and its refusal ends the handler
Resume_Awaited(c, flow, tag, entityId, dt, r) ==
    /\ Settled
    /\ pc[c].flow = flow /\ pc[c].step = "finish"
    /\ clock' = clock + dt
    /\ \E ok \in Outcomes :
          /\ failures' = IF ok THEN failures ELSE failures + 1
          /\ store' = [store EXCEPT !.auditLogs =
                         logAction(@, pc[c].user, tag, entityId, genId(clock + dt, r), ok)]
          /\ generated' = Generated(c, genId(clock + dt, r), "log", ok)
          /\ pc' = [pc EXCEPT ![c] = IF ok THEN [Idle EXCEPT !.flow = flow, !.step = "done",
                                                             !.logged = ok, !.toast = "success"]
                                     ELSE Threw(flow)]
    /\ UNCHANGED <<currentPage, users, currentUser, cache, dashboard, now>>

\* variant: logAction reads the session of the moment it runs, not the one of
\* the render whose handler calls it
Resume_LiveSession(c, flow, tag, entityId, dt, r) ==
    /\ Settled
    /\ pc[c].flow = flow /\ pc[c].step = "finish"
    /\ clock' = clock + dt
    /\ \E ok \in Outcomes :
          /\ failures' = IF ok THEN failures ELSE failures + 1
          /\ store' = [store EXCEPT !.auditLogs =
                         logAction(@, currentUser[c], tag, entityId, genId(clock + dt, r), ok)]
          /\ generated' = Generated(c, genId(clock + dt, r), "log", ok)
          /\ pc' = [pc EXCEPT ![c] = [Idle EXCEPT !.flow = flow, !.step = "done",
                                                  !.logged = ok, !.toast = "success"]]
    /\ UNCHANGED <<currentPage, users, currentUser, cache, dashboard, now>>

\* the handler after its await: logAction(tag, entityId, ...), toast.success
Resume(c, flow, tag, entityId, dt, r) ==
    /\ Settled
    /\ pc[c].flow = flow /\ pc[c].step = "finish"
    /\ clock' = clock + dt
    /\ \E ok \in Outcomes :
          /\ failures' = IF ok THEN failures ELSE failures + 1
          /\ store' = [store EXCEPT !.auditLogs =
                         logAction(@, pc[c].user, tag, entityId, genId(clock + dt, r), ok)]
          /\ generated' = Generated(c, genId(clock + dt, r), "log", ok)
          /\ pc' = [pc EXCEPT ![c] = [Idle EXCEPT !.flow = flow, !.step = "done",
                                                  !.logged = ok, !.toast = "success"]]
    /\ UNCHANGED <<currentPage, users, currentUser, cache, dashboard, now>>

RMIn_handleStockIn(c, sel, qty, dt, r) ==
    /\ Displayed(c)
    /\ sel \in Options(cache[c].rmProducts)
    /\ IF ~StockFormValid(sel, qty) THEN Rejected(c, "rmIn", "form", 1, "none")
       ELSE IF sel = "" \/ qty <= 0 THEN Rejected(c, "rmIn", "guard", 1, "none")
       ELSE WriteStock(c, "rmIn",
                       Movement(genId(clock + dt, r), sel, Undefined, "IN", qty, NoId,
                                Username(currentUser[c])),
                       [productId |-> sel, qty |-> qty], dt)

RMIn_resume(c, dt, r) == Resume(c, "rmIn", "RM_STOCK_IN", pc[c].items[1].productId, dt, r)

RMOut_handleStockOut(c, sel, qty, dt, r) ==
    /\ Displayed(c)
    /\ sel \in Options(cache[c].rmProducts)
    /\ IF ~StockFormValid(sel, qty) THEN Rejected(c, "rmOut", "form", 1, "none")
       ELSE IF sel = "" \/ qty <= 0 THEN Rejected(c, "rmOut", "guard", 1, "none")
       ELSE IF Insufficient(qty, computeBalance(cache[c].movements, sel, FALSE))
       THEN Rejected(c, "rmOut", "balance", 1, "error")
       ELSE WriteStock(c, "rmOut",
                       Movement(genId(clock + dt, r), sel, Undefined, "OUT", qty, NoId,
                                Username(currentUser[c])),
                       [productId |-> sel, qty |-> qty], dt)

RMOut_resume(c, dt, r) == Resume(c, "rmOut", "RM_STOCK_OUT", pc[c].items[1].productId, dt, r)

FGIn_handleStockIn(c, sel, qty, dt, r) ==
    /\ Displayed(c)
    /\ sel \in Options(cache[c].fgProducts)
    /\ IF ~StockFormValid(sel, qty) THEN Rejected(c, "fgIn", "form", 1, "none")
       ELSE IF sel = "" \/ qty <= 0 THEN Rejected(c, "fgIn", "guard", 1, "none")
       ELSE WriteStock(c, "fgIn",
                       Movement(genId(clock + dt, r), Undefined, sel, "IN", qty, NoId,
                                Username(currentUser[c])),
                       [productId |-> sel, qty |-> qty], dt)

FGIn_resume(c, dt, r) == Resume(c, "fgIn", "FG_STOCK_IN", pc[c].items[1].productId, dt, r)

FGOut_handleStockOut(c, sel, qty, dt, r) ==
    /\ Displayed(c)
    /\ sel \in Options(cache[c].fgProducts)
    /\ IF ~StockFormValid(sel, qty) THEN Rejected(c, "fgOut", "form", 1, "none")
       ELSE IF sel = "" \/ qty <= 0 THEN Rejected(c, "fgOut", "guard", 1, "none")
       ELSE IF Insufficient(qty, computeBalance(cache[c].movements, sel, TRUE))
       THEN Rejected(c, "fgOut", "balance", 1, "error")
       ELSE WriteStock(c, "fgOut",
                       Movement(genId(clock + dt, r), Undefined, sel, "OUT", qty, NoId,
                                Username(currentUser[c])),
                       [productId |-> sel, qty |-> qty], dt)

FGOut_resume(c, dt, r) == Resume(c, "fgOut", "FG_STOCK_OUT", pc[c].items[1].productId, dt, r)

(***************************************************************************)
(* Document forms: renderProductionAdd, renderGRN, renderDN.               *)
(***************************************************************************)
\* genId, the document literal, await set(ref(db, `${CLOUD_ROOT}/<coll>/${id}`), doc)
WriteDoc(c, flow, coll, doc, items, dt) ==
    /\ Room(c, Len(items) + 2)
    /\ clock' = clock + dt
    /\ \E ok \in Outcomes :
          /\ failures' = IF ok THEN failures ELSE failures + 1
          /\ store' = IF ok THEN [store EXCEPT ![coll] = dbSet(@, doc)] ELSE store
          /\ generated' = Generated(c, doc.id, "doc", ok)
          /\ pc' = [pc EXCEPT ![c] =
                      IF ok THEN [Idle EXCEPT !.flow = flow, !.step = "moves",
                                              !.user = currentUser[c], !.docId = doc.id,
                                              !.items = items, !.idx = 1, !.before = store]
                      ELSE Threw(flow)]
    /\ UNCHANGED <<currentPage, users, currentUser, cache, dashboard, now>>

\* variant: a refused movement write takes the document and the movements of the
\* flow out of the store again
WriteLine_Rollback(c, move, dt) ==
    /\ clock' = clock + dt
    /\ \E ok \in Outcomes :
          /\ failures' = IF ok THEN failures ELSE failures + 1
          /\ store' = IF ok THEN [store EXCEPT !.stockMovements = dbSet(@, move)] ELSE pc[c].before
          /\ generated' = Generated(c, move.id, "move", ok)
          /\ pc' = [pc EXCEPT ![c] =
                      IF ok THEN [pc[c] EXCEPT !.step = IF pc[c].idx = Len(pc[c].items)
                                                       THEN "finish" ELSE "moves",
                                               !.idx = pc[c].idx + 1,
                                               !.moves = Append(pc[c].moves, move.id)]
                      ELSE Threw(pc[c].flow)]
    /\ UNCHANGED <<currentPage, users, currentUser, cache, dashboard, now>>

\* variant: a refused movement write is caught and the loop goes on to the next line
WriteLine_Continue(c, move, dt) ==
    /\ clock' = clock + dt
    /\ \E ok \in Outcomes :
          /\ failures' = IF ok THEN failures ELSE failures + 1
          /\ store' = IF ok THEN [store EXCEPT !.stockMovements = dbSet(@, move)] ELSE store
          /\ generated' = Generated(c, move.id, "move", ok)
          /\ pc' = [pc EXCEPT ![c] =
                      [pc[c] EXCEPT !.step = IF pc[c].idx = Len(pc[c].items)
                                             THEN "finish" ELSE "moves",
                                    !.idx = pc[c].idx + 1,
                                    !.moves = IF ok THEN Append(pc[c].moves, move.id)
                                              ELSE pc[c].moves]]
    /\ UNCHANGED <<currentPage, users, currentUser, cache, dashboard, now>>

\* one pass of `for (const item of items)`: genId, await set(stockMovements/moveId)
WriteLine(c, move, dt) ==
    /\ clock' = clock + dt
    /\ \E ok \in Outcomes :
          /\ failures' = IF ok THEN failures ELSE failures + 1
          /\ store' = IF ok THEN [store EXCEPT !.stockMovements = dbSet(@, move)] ELSE store
          /\ generated' = Generated(c, move.id, "move", ok)
          /\ pc' = [pc EXCEPT ![c] =
                      IF ok THEN [pc[c] EXCEPT !.step = IF pc[c].idx = Len(pc[c].items)
                                                       THEN "finish" ELSE "moves",
                                               !.idx = pc[c].idx + 1,
                                               !.moves = Append(pc[c].moves, move.id)]
                      ELSE Threw(pc[c].flow)]
    /\ UNCHANGED <<currentPage, users, currentUser, cache, dashboard, now>>

Prod_handleSubmit(c, sel, qty, dt, r) ==
    /\ Displayed(c)
    /\ sel \in Options(cache[c].fgProducts)
    /\ IF ~StockFormValid(sel, qty) THEN Rejected(c, "prod", "form", 1, "none")
       ELSE IF sel = "" \/ qty <= 0 THEN Rejected(c, "prod", "guard", 1, "none")
       ELSE WriteDoc(c, "prod", "productions",
                     [id |-> genId(clock + dt, r), fgId |-> sel, quantity |-> qty,
                      createdBy |-> Username(currentUser[c])],
                     <<[productId |-> sel, qty |-> qty]>>, dt)

\* variant: production consumes a raw material as well as adding the finished good
Prod_writeMove_Consumes(c, dt, r) ==
    /\ Settled
    /\ pc[c].flow = "prod" /\ pc[c].step = "moves"
    /\ clock' = clock + dt
    /\ failures' = failures
    /\ generated' = Generated(c, genId(clock + dt, r), "move", TRUE)
    /\ store' = [store EXCEPT !.stockMovements =
                   dbSet(dbSet(@, Movement(genId(clock + dt, r), Undefined, pc[c].items[1].productId,
                                           "IN", pc[c].items[1].qty, NoId, Username(pc[c].user))),
                         Movement(genId(clock + dt, r + 1), RMProducts[1].id, Undefined,
                                  "OUT", 1, NoId, Username(pc[c].user)))]
    /\ pc' = [pc EXCEPT ![c] = [pc[c] EXCEPT !.step = "finish", !.idx = 2,
                                             !.moves = <<genId(clock + dt, r)>>]]
    /\ UNCHANGED <<currentPage, users, currentUser, cache, dashboard, now>>

\* "Also create a stock movement for FG"
Prod_writeMove(c, dt, r) ==
    /\ Settled
    /\ pc[c].flow = "prod" /\ pc[c].step = "moves"
    /\ WriteLine(c, Movement(genId(clock + dt, r), Undefined, pc[c].items[1].productId, "IN",
                             pc[c].items[1].qty, NoId, Username(pc[c].user)), dt)

Prod_resume(c, dt, r) == Resume(c, "prod", "PRODUCTION_ADD", pc[c].docId, dt, r)

\* the line items a GRN or DN form can hold when it is submitted: any lines that
\* name a product and a quantity of 1 or more, and the same with one line left
\* as addItem created it ({ productId: '', qty: 0 }), without its product or
\* without its quantity
Lines(options) ==
    LET filled == [productId : options \ {""}, qty : 1..MaxQty]
        blank == { [productId |-> "", qty |-> 0] }
                 \cup { [productId |-> "", qty |-> 1] }
                 \cup { [productId |-> p, qty |-> 0] : p \in options \ {""} }
        good == UNION {[1..n -> filled] : n \in 0..MaxLines}
    IN  good \cup { [s EXCEPT ![i] = b] : s \in good, i \in 1..MaxLines, b \in blank }

\* variant: the quantity inputs carry no min attribute
LinesValid_SelectOnly(items) == \A i \in 1..Len(items) : items[i].productId # ""

\* every line's product is one of the <option>s the select holds
Offered(items, options) == \A i \in 1..Len(items) : items[i].productId \in options

\* constraint validation of the line items: <select required>, <input required min="1">
LinesValid(items) == \A i \in 1..Len(items) : items[i].productId # "" /\ items[i].qty >= 1

FirstBad(items, bad) == IF bad = {} THEN 0 ELSE CHOOSE i \in bad : \A j \in bad : i <= j

GRN_handleSubmit(c, sup, items, dt, r) ==
    /\ Displayed(c)
    /\ sup \in Options(cache[c].suppliers)
    /\ Offered(items, Options(cache[c].rmProducts))
    /\ IF ~(sup # "" /\ LinesValid(items))
       THEN Rejected(c, "grn", "form",
                     FirstBad(items, {i \in 1..Len(items) : ~LinesValid(<<items[i]>>)}), "none")
       ELSE IF sup = "" \/ Len(items) = 0 THEN Rejected(c, "grn", "guard", 0, "none")
       ELSE WriteDoc(c, "grn", "bills",
                     [id |-> genId(clock + dt, r), supplierId |-> sup, items |-> items,
                      createdBy |-> Username(currentUser[c])],
                     items, dt)

\* variant: the movements are not tagged with the bill
GRN_writeMove_NoTag(c, dt, r) ==
    /\ Settled
    /\ pc[c].flow = "grn" /\ pc[c].step = "moves"
    /\ LET item == pc[c].items[pc[c].idx]
       IN  WriteLine(c, Movement(genId(clock + dt, r), item.productId, Undefined, "IN",
                                 item.qty, NoId, Username(pc[c].user)), dt)

\* variant: the movement writes of all lines are issued together (no await
\* between them)
GRN_writeMove_AllAtOnce(c, dt, r) ==
    /\ Settled
    /\ pc[c].flow = "grn" /\ pc[c].step = "moves"
    /\ clock' = clock + dt
    /\ failures' = failures
    /\ LET ms == [k \in 1..Len(pc[c].items) |->
                    Movement(genId(clock + dt, r + k - 1), pc[c].items[k].productId, Undefined,
                             "IN", pc[c].items[k].qty, pc[c].docId, Username(pc[c].user))]
       IN  /\ store' = [store EXCEPT !.stockMovements = @ \cup Range(ms)]
           /\ generated' = Generated(c, ms[1].id, "move", TRUE)
           /\ pc' = [pc EXCEPT ![c] = [pc[c] EXCEPT !.step = "finish",
                                                    !.idx = Len(pc[c].items) + 1,
                                                    !.moves = [k \in 1..Len(ms) |-> ms[k].id]]]
    /\ UNCHANGED <<currentPage, users, currentUser, cache, dashboard, now>>

GRN_writeMove(c, dt, r) ==
    /\ Settled
    /\ pc[c].flow = "grn" /\ pc[c].step = "moves"
    /\ LET item == pc[c].items[pc[c].idx]
       IN  WriteLine(c, Movement(genId(clock + dt, r), item.productId, Undefined, "IN",
                                 item.qty, pc[c].docId, Username(pc[c].user)), dt)

GRN_resume(c, dt, r) == Resume(c, "grn", "GRN_ADD", pc[c].docId, dt, r)

\* variant: only the first line is checked
OverBalance_FirstLine(items, movs) ==
    {i \in 1..Len(items) :
        i = 1 /\ Insufficient(items[i].qty, computeBalance(movs, items[i].productId, TRUE))}

\* "Check stock for all items": the lines whose quantity exceeds the cached balance
OverBalance(items, movs) ==
    {i \in 1..Len(items) :
        Insufficient(items[i].qty, computeBalance(movs, items[i].productId, TRUE))}

DN_handleSubmit(c, items, dt, r) ==
    /\ Displayed(c)
    /\ Offered(items, Options(cache[c].fgProducts))
    /\ IF ~LinesValid(items)
       THEN Rejected(c, "dn", "form",
                     FirstBad(items, {i \in 1..Len(items) : ~LinesValid(<<items[i]>>)}), "none")
       ELSE IF Len(items) = 0 THEN Rejected(c, "dn", "guard", 0, "none")
       ELSE IF OverBalance(items, cache[c].movements) # {}
       THEN Rejected(c, "dn", "balance",
                     FirstBad(items, OverBalance(items, cache[c].movements)), "error")
       ELSE WriteDoc(c, "dn", "deliveryNotes",
                     [id |-> genId(clock + dt, r), items |-> items,
                      createdBy |-> Username(currentUser[c])],
                     items, dt)

\* variant: the item id goes to the productId field
DN_writeMove_RMKey(c, dt, r) ==
    /\ Settled
    /\ pc[c].flow = "dn" /\ pc[c].step = "moves"
    /\ LET item == pc[c].items[pc[c].idx]
       IN  WriteLine(c, Movement(genId(clock + dt, r), item.productId, Undefined, "OUT",
                                 item.qty, NoId, Username(pc[c].user)), dt)

DN_writeMove(c, dt, r) ==
    /\ Settled
    /\ pc[c].flow = "dn" /\ pc[c].step = "moves"
    /\ LET item == pc[c].items[pc[c].idx]
       IN  WriteLine(c, Movement(genId(clock + dt, r), Undefined, item.productId, "OUT",
                                 item.qty, NoId, Username(pc[c].user)), dt)

DN_resume(c, dt, r) == Resume(c, "dn", "DN_ADD", pc[c].docId, dt, r)

(***************************************************************************)
(* Specifications.                                                         *)
(***************************************************************************)
\* milliseconds between two readings of the clock by genId
Elapsed == {1}

Session(c) ==
    \/ \E f \in LoginForm(c) : handleLogin(c, f[1], f[2])
    \/ onValue(c)
    \/ dismiss(c)

StockIn(c) ==
    \E qty \in QtyInputs, dt \in Elapsed, r \in Suffixes :
        \/ \E sel \in Options(RMProducts) : RMIn_handleStockIn(c, sel, qty, dt, r)
        \/ \E sel \in Options(FGProducts) : FGIn_handleStockIn(c, sel, qty, dt, r)
        \/ RMIn_resume(c, dt, r)
        \/ FGIn_resume(c, dt, r)

StockOut(c) ==
    \E qty \in QtyInputs, dt \in Elapsed, r \in Suffixes :
        \/ \E sel \in Options(RMProducts) : RMOut_handleStockOut(c, sel, qty, dt, r)
        \/ \E sel \in Options(FGProducts) : FGOut_handleStockOut(c, sel, qty, dt, r)
        \/ RMOut_resume(c, dt, r)
        \/ FGOut_resume(c, dt, r)

Production(c) ==
    \E dt \in Elapsed, r \in Suffixes :
        \/ \E sel \in Options(FGProducts), qty \in QtyInputs : Prod_handleSubmit(c, sel, qty, dt, r)
        \/ Prod_writeMove(c, dt, r)
        \/ Prod_resume(c, dt, r)

GoodsReceived(c) ==
    \E dt \in Elapsed, r \in Suffixes :
        \/ \E sup \in Options(Suppliers), items \in Lines(Options(RMProducts)) :
              GRN_handleSubmit(c, sup, items, dt, r)
        \/ GRN_writeMove(c, dt, r)
        \/ GRN_resume(c, dt, r)

Delivery(c) ==
    \E dt \in Elapsed, r \in Suffixes :
        \/ \E items \in Lines(Options(FGProducts)) : DN_handleSubmit(c, items, dt, r)
        \/ DN_writeMove(c, dt, r)
        \/ DN_resume(c, dt, r)

\* One operator at one client, every form.
Next ==
    \E c \in {"c1"} :
        Session(c) \/ StockIn(c) \/ StockOut(c) \/ Production(c) \/ GoodsReceived(c) \/ Delivery(c)

Spec == Init /\ [][Next]_vars

\* Two clients with a saved session (the sms_currentUser effect), issuing stock
\* from the same ledger; the store refuses no write.
InitRace ==
    /\ clock = 0
    /\ store = [EmptyStore EXCEPT !.stockMovements = OpeningLedger]
    /\ currentUser = [c \in Clients |-> CHOOSE u \in Range(Users) : u.username = LoginAs(c)]
    /\ cache = [c \in Clients |-> EmptyCache]
    /\ dashboard = [c \in Clients |-> renderDashboard(EmptyCache)]
    /\ pc = [c \in Clients |-> Idle]
    /\ failures = MaxFailures
    /\ generated = <<>>
    /\ now = Noon
    /\ currentPage = [c \in Clients |-> "dashboard"]
    /\ users = [c \in Clients |-> store.users]

NextRace == \E c \in Clients : onValue(c) \/ dismiss(c) \/ StockOut(c) \/ Delivery(c)

SpecRace == InitRace /\ [][NextRace]_vars

\* The balance reducer and the alert evaluator on every small ledger: the store
\* holds any movements of the known items, the client subscribes and renders.
\* A movement of the largest quantity is also drawn with a qty alias beside it.
LedgerShapes ==
    LET rm == { Movement(NoId, p, Undefined, t, q, NoId, "alice") :
                  p \in RMIds, t \in {"IN", "OUT"}, q \in 1..MaxQty }
        fg == { Movement(NoId, Undefined, p, t, q, NoId, "alice") :
                  p \in FGIds, t \in {"IN", "OUT"}, q \in 1..MaxQty }
    IN  rm \cup fg \cup { [m EXCEPT !.qty = 1] : m \in {x \in rm \cup fg : x.quantity = MaxQty} }

\* an order of the shapes: lists that differ only in the order of their
\* movements are one ledger, so one list of each is drawn
Rank(m) ==
    LET item == IF m.productId # Undefined THEN m.productId ELSE m.fgId
        place == CHOOSE k \in 1..Len(RMProducts \o FGProducts) : (RMProducts \o FGProducts)[k].id = item
    IN  ((place * (MaxQty + 1) + m.quantity) * 2 + m.qty) * 2 + (IF m.type = "IN" THEN 0 ELSE 1)

RECURSIVE SortedLists(_)
SortedLists(n) ==
    IF n = 0 THEN {<<>>}
    ELSE LET shorter == SortedLists(n - 1)
         IN  shorter \cup
             UNION { { Append(l, m) : m \in {x \in LedgerShapes : n = 1 \/ Rank(l[n - 1]) <= Rank(x)} } :
                       l \in {x \in shorter : Len(x) = n - 1} }

\* the stockMovements node for each list: the k-th movement under the k-th id
Ledgers ==
    { { [l[k] EXCEPT !.id = genId(0, k)] : k \in DOMAIN l } : l \in SortedLists(MaxLedger) }

InitLedger ==
    /\ clock = 0
    /\ store \in { [EmptyStore EXCEPT !.stockMovements = l] : l \in Ledgers }
    /\ currentUser = [c \in Clients |-> NoUser]
    /\ cache = [c \in Clients |-> EmptyCache]
    /\ dashboard = [c \in Clients |-> renderDashboard(EmptyCache)]
    /\ pc = [c \in Clients |-> Idle]
    /\ failures = 0
    /\ generated = <<>>
    /\ now = Noon
    /\ currentPage = [c \in Clients |-> "dashboard"]
    /\ users = [c \in Clients |-> store.users]

NextLedger ==
    \E c \in {"c1"} : (\E f \in LoginForm(c) : handleLogin(c, f[1], f[2])) \/ handleLogout(c) \/ onValue(c)

SpecLedger == InitLedger /\ [][NextLedger]_vars

\* The subscription over drawn stores: a ledger, and a separate fgMovements node
\* that is absent, holds one movement of its own, or holds a movement under the id
\* of the ledger's first movement.
FGNodes ==
    { {},
      {Movement(genId(0, MaxLedger + 1), Undefined, FGProducts[1].id, "IN", 1, NoId, "alice")},
      {Movement(genId(0, 1), Undefined, FGProducts[1].id, "IN", 1, NoId, "alice")} }

InitSync ==
    /\ clock = 0
    /\ store \in { [EmptyStore EXCEPT !.stockMovements = l, !.fgMovements = f] :
                      l \in Ledgers, f \in FGNodes }
    /\ currentUser = [c \in Clients |-> NoUser]
    /\ cache = [c \in Clients |-> EmptyCache]
    /\ dashboard = [c \in Clients |-> renderDashboard(EmptyCache)]
    /\ pc = [c \in Clients |-> Idle]
    /\ failures = 0
    /\ generated = <<>>
    /\ now = Noon
    /\ currentPage = [c \in Clients |-> "dashboard"]
    /\ users = [c \in Clients |-> store.users]

SpecSync == InitSync /\ [][NextLedger]_vars

\* The dashboard over drawn data.  A dated movement carries one of the dates
\* below (one with the quantity under its alias, or under neither key, the last
\* of them); a document carries yesterday's, today's or tomorrow's date.
DatedShapes ==
    LET shape(d, t, quantity, qty) ==
            [date |-> d] @@ [Movement(NoId, RMProducts[1].id, Undefined, t, quantity, NoId, "alice")
                                EXCEPT !.qty = qty]
    IN  {shape(d, t, k, 0) : d \in {14, 15, 20}, t \in {"IN", "OUT"}, k \in 1..MaxQty}
          \cup {shape(20, t, 0, qty) : t \in {"IN", "OUT"}, qty \in {0, 1}}

ShapeRank(m) ==
    ((m.date * (MaxQty + 1) + m.quantity) * 2 + m.qty) * 2 + (IF m.type = "IN" THEN 0 ELSE 1)

RECURSIVE DatedLists(_)
DatedLists(n) ==
    IF n = 0 THEN {<<>>}
    ELSE LET shorter == DatedLists(n - 1)
         IN  shorter \cup
             UNION { { Append(l, [m EXCEPT !.id = genId(0, n)]) :
                         m \in {x \in DatedShapes : n = 1 \/ ShapeRank(l[n - 1]) <= ShapeRank(x)} } :
                       l \in {x \in shorter : Len(x) = n - 1} }

RECURSIVE DocLists(_, _)
DocLists(n, today) ==
    IF n = 0 THEN {<<>>}
    ELSE LET shorter == DocLists(n - 1, today)
         IN  shorter \cup
             { Append(l, [id |-> genId(0, n), date |-> d]) :
                 l \in {x \in shorter : Len(x) = n - 1}, d \in {today - 1, today, today + 1} }

\* the data state with its document lists
DashCache(movements, bills, deliveryNotes, productions) ==
    [ rmProducts |-> RMProducts, fgProducts |-> FGProducts, suppliers |-> Suppliers,
      movements |-> movements, bills |-> bills, deliveryNotes |-> deliveryNotes,
      productions |-> productions ]

\* The chart reads the movements only and the document count the documents only:
\* the data drawn has dated movements or documents.  The data has arrived and the
\* dashboard on screen is still the one rendered before it.
InitDash ==
    /\ clock = 0
    /\ store = EmptyStore
    /\ currentUser = [c \in Clients |-> CHOOSE u \in Range(Users) : u.username = LoginAs(c)]
    /\ now \in {[Noon EXCEPT !.hour = Hours[h], !.zone = z] : h \in DOMAIN Hours, z \in Zones}
    /\ currentPage = [c \in Clients |-> "dashboard"]
    /\ users = [c \in Clients |-> store.users]
    /\ \E data \in
            {DashCache(l, <<>>, <<>>, <<>>) : l \in DatedLists(MaxDated)}
              \cup {DashCache(<<>>, b, d, p) : b \in DocLists(MaxDocs, todayISO(now)),
                                              d \in DocLists(MaxDocs, todayISO(now)),
                                              p \in DocLists(MaxDocs, todayISO(now))} :
          /\ cache = [c \in Clients |-> data]
          /\ dashboard = [c \in Clients |-> renderDashboardAt(DashCache(<<>>, <<>>, <<>>, <<>>), now)]
    /\ pc = [c \in Clients |-> Idle]
    /\ failures = 0
    /\ generated = <<>>

\* time passes: the next of the hours, or the first hour of the next day
Tick ==
    /\ \E h \in DOMAIN Hours :
          /\ now.hour = Hours[h]
          /\ IF h < Len(Hours) THEN now' = [now EXCEPT !.hour = Hours[h + 1]]
             ELSE /\ now.day + 1 \in Days
                  /\ now' = [now EXCEPT !.day = @ + 1, !.hour = Hours[1]]
    /\ UNCHANGED <<currentPage, users, clock, store, currentUser, cache, dashboard, pc, failures, generated>>

\* the component renders again
Render(c) ==
    /\ dashboard[c] # renderDashboardAt(cache[c], now)
    /\ dashboard' = [dashboard EXCEPT ![c] = renderDashboardAt(cache[c], now)]
    /\ UNCHANGED <<currentPage, users, clock, store, currentUser, cache, pc, failures, generated, now>>

NextDash == Tick \/ \E c \in {"c1"} : Render(c)

SpecDash == InitDash /\ [][NextDash]_vars

\* Two clients whose genId calls can fall in the same millisecond; both draw the
\* same random suffix (Suffixes).  A client's own calls are at least 1 ms apart: an awaited
\* round trip to the store, or the operator, lies between them.  Millisecond 0 is
\* the time of the opening ledger, which earlier sessions wrote: no call of this
\* run reads it.
Gap(c) ==
    {dt \in {0, 1} :
        /\ clock + dt > 0
        /\ \A k \in 1..Len(generated) : generated[k].by = c => generated[k].id[1] < clock + dt}

StockInAt(c) ==
    \E qty \in QtyInputs, dt \in {0, 1}, r \in Suffixes :
        \/ \E sel \in Options(RMProducts) : dt \in Gap(c) /\ RMIn_handleStockIn(c, sel, qty, dt, r)
        \/ dt \in Gap(c) /\ RMIn_resume(c, dt, r)

ProductionAt(c) ==
    \E dt \in {0, 1}, r \in Suffixes :
        \/ \E sel \in Options(FGProducts), qty \in QtyInputs :
              dt \in Gap(c) /\ Prod_handleSubmit(c, sel, qty, dt, r)
        \/ dt \in Gap(c) /\ Prod_writeMove(c, dt, r)
        \/ dt \in Gap(c) /\ Prod_resume(c, dt, r)

NextClash == \E c \in Clients : onValue(c) \/ dismiss(c) \/ StockInAt(c) \/ ProductionAt(c)

SpecClash == InitRace /\ [][NextClash]_vars

(***************************************************************************)
(* Properties of the ledger.                                               *)
(***************************************************************************)
\* the key under which a movement names its item
ClassKey(m, isFG) == IF isFG THEN m.fgId ELSE m.productId

\* a field of a record that holds an item id
IsSet(x) == x # Undefined /\ x # ""

RECURSIVE SumSigned(_)
SumSigned(S) ==
    IF S = {} THEN 0
    ELSE LET m == CHOOSE x \in S : TRUE
         IN  (IF m.type = "IN" THEN m.quantity ELSE -m.quantity) + SumSigned(S \ {m})

\* sum of +quantity (IN) and -quantity (OUT) over the movements of S that name i
SignedSum(S, i, isFG) == SumSigned({m \in S : ClassKey(m, isFG) = i})

\* every order of a list
Orders(seq) == { [k \in 1..Len(seq) |-> seq[f[k]]] : f \in Permutations(1..Len(seq)) }

\* the item ids asked about: the known ones and one no movement names
ItemIds == RMIds \cup FGIds \cup {"x9"}

\* balance of an item over the movements of a store
StoreBalance(data, i, isFG) == computeBalance(ObjectValues(data.stockMovements), i, isFG)

RECURSIVE LineSum(_, _)
LineSum(items, i) ==
    IF items = <<>> THEN 0
    ELSE (IF Head(items).productId = i THEN Head(items).qty ELSE 0) + LineSum(Tail(items), i)

OutFlows == {"rmOut", "fgOut", "dn"}
FGFlows == {"fgIn", "fgOut", "prod", "dn"}

\* client c submitted a form in this step
Submits(c) == pc[c].step = "idle" /\ pc'[c].step # "idle"

\* the handler of client c went past its guards and its first write succeeded
Accepted(c) == pc[c].step = "idle" /\ pc'[c].step \in {"moves", "finish"}

\* C1: for every item id, class flag and movement list, computeBalance equals
\* the sum, over the movements whose class key (productId for RM, fgId for FG)
\* is the item, of +quantity for IN and -quantity for OUT, and every
\* permutation of the list gives the same result.
C1_SignedSum ==
    \A c \in Clients :
        \A M \in Orders(cache[c].movements) :
            \A i \in ItemIds, isFG \in BOOLEAN :
                computeBalance(M, i, isFG) = SignedSum(Range(M), i, isFG)

\* a list with an IN and an OUT of different quantities for one raw material and
\* a movement of a finished good
C1_Witness ==
    \E c \in Clients, i \in RMIds :
        \E a, b, x \in Range(cache[c].movements) :
            /\ a.productId = i /\ a.type = "IN"
            /\ b.productId = i /\ b.type = "OUT"
            /\ a.quantity # b.quantity
            /\ IsSet(x.fgId)
            /\ computeBalance(cache[c].movements, i, FALSE) = a.quantity - b.quantity

\* C2: computeBalance is 0 for any item id when the movement list is empty, and
\* when the list is not empty but none of its movements names the item under
\* the selected class key.
C2_ZeroWhenUnreferenced ==
    \A c \in Clients, i \in ItemIds, isFG \in BOOLEAN :
        LET M == cache[c].movements
        IN  (\A k \in 1..Len(M) : ClassKey(M[k], isFG) # i) => computeBalance(M, i, isFG) = 0

\* a non-empty list whose movements name a raw material: asked under the
\* finished-goods key, and asked for an item nothing names, the balance is 0
C2_Witness ==
    \E c \in Clients, i \in RMIds :
        LET M == cache[c].movements
        IN  /\ M # <<>>
            /\ computeBalance(M, i, FALSE) # 0
            /\ computeBalance(M, i, TRUE) = 0
            /\ computeBalance(M, "x9", FALSE) = 0

\* C3: the dashboard lists an item (RM or FG) as low stock if and only if its
\* balance is less than or equal to its threshold: a balance equal to the
\* threshold is low stock, a balance one above it is not.
C3_LowStockIffAtOrBelow ==
    \A c \in Clients :
        /\ \A p \in Range(cache[c].rmProducts) :
              (p \in Range(dashboard[c].lowStockRM))
                  <=> (SignedSum(Range(cache[c].movements), p.id, FALSE) <= p.threshold)
        /\ \A p \in Range(cache[c].fgProducts) :
              (p \in Range(dashboard[c].lowStockFG))
                  <=> (SignedSum(Range(cache[c].movements), p.id, TRUE) <= p.threshold)

\* one item exactly at its threshold and listed, another one above and not listed
C3_Witness ==
    \E c \in Clients :
        \E p \in Range(cache[c].rmProducts), q \in Range(cache[c].fgProducts) :
            /\ SignedSum(Range(cache[c].movements), p.id, FALSE) = p.threshold
            /\ p \in Range(dashboard[c].lowStockRM)
            /\ SignedSum(Range(cache[c].movements), q.id, TRUE) = q.threshold + 1
            /\ q \notin Range(dashboard[c].lowStockFG)

\* a line of a submission names an item, has a quantity above 0 and, in a flow
\* that issues stock, a quantity within the balance of the client's cache
LineOk(c_cache, flow, item) ==
    /\ item.productId # ""
    /\ item.qty > 0
    /\ flow \in OutFlows =>
          item.qty <= SignedSum(Range(c_cache.movements), item.productId, flow \in FGFlows)

\* C4: in every flow, a submission with a missing selection, a quantity not
\* above 0 (on any GRN or DN line too) or a quantity above the cached balance is
\* rejected before any write: a rejected submission leaves every collection of
\* the store as it was, and a submission that changes the store has a supplier
\* (GRN), at least one line, and only well-formed lines within the balance.
C4_RejectedBeforeWrite ==
    [][\A c \in Clients :
          Submits(c) =>
             /\ pc'[c].step = "rejected" => store' = store
             /\ store' # store =>
                   /\ Accepted(c)
                   /\ Len(pc'[c].items) > 0
                   /\ \A k \in 1..Len(pc'[c].items) :
                         LineOk(cache[c], pc'[c].flow, pc'[c].items[k])
                   /\ pc'[c].flow = "grn" =>
                         \E b \in store'.bills : b.id = pc'[c].docId /\ b.supplierId # ""]_vars

\* a GRN whose first line is complete and whose second line is not was rejected
C4_Witness ==
    \E c \in Clients :
        pc[c].step = "rejected" /\ pc[c].flow = "grn" /\ pc[c].why = "form" /\ pc[c].idx = 2

\* C5: a Delivery Note of which any line asks more than the cached balance of its
\* finished good aborts with an error and writes no DeliveryNote and no
\* Movement, whichever position the line has: the note is written only when no
\* line at all exceeds the balance.
C5_DeliveryAllOrNothing ==
    [][\A c \in Clients :
          (Submits(c) /\ pc'[c].flow = "dn") =>
             /\ (pc'[c].step = "rejected" /\ pc'[c].why = "balance") =>
                   /\ pc'[c].toast = "error"
                   /\ store'.deliveryNotes = store.deliveryNotes
                   /\ store'.stockMovements = store.stockMovements
             /\ store' # store =>
                   /\ pc'[c].step = "moves"
                   /\ store'.stockMovements = store.stockMovements
                   /\ \A k \in 1..Len(pc'[c].items) :
                         pc'[c].items[k].qty
                            <= computeBalance(cache[c].movements, pc'[c].items[k].productId, TRUE)]_vars

\* a Delivery Note was refused for its second line, the first being within balance
C5_Witness ==
    \E c \in Clients :
        /\ pc[c].step = "rejected" /\ pc[c].flow = "dn" /\ pc[c].why = "balance" /\ pc[c].idx = 2
        /\ store.deliveryNotes = {}

\* C6: two clients issuing the same item are each checked against their own
\* cached movement list only: every accepted issue is within the balance of the
\* cache of the client that submitted it, whatever the store holds, and the
\* handler that wrote it ends with the success toast.  Both can therefore write
\* and the balance of the item goes below 0 (C6_Overdrawn).
C6_CheckedAgainstOwnCache ==
    [][\A c \in Clients :
          /\ (Accepted(c) /\ pc'[c].flow \in OutFlows) =>
                \A k \in 1..Len(pc'[c].items) :
                    pc'[c].items[k].qty
                       <= computeBalance(cache[c].movements, pc'[c].items[k].productId,
                                         pc'[c].flow \in FGFlows)
          /\ (pc[c].step = "finish" /\ pc'[c].step # "finish") =>
                pc'[c].step = "done" /\ pc'[c].toast = "success"]_vars

\* one OUT movement of each user on one item, and the balance of the item below 0
C6_Overdrawn ==
    \E isFG \in BOOLEAN, i \in RMIds \cup FGIds :
        LET out == {m \in store.stockMovements : m.type = "OUT" /\ ClassKey(m, isFG) = i}
        IN  /\ Cardinality(out) = 2
            /\ {m.createdBy : m \in out} = {"alice", "bob"}
            /\ StoreBalance(store, i, isFG) < 0

\* C7: a GRN of n lines whose writes all succeeded added exactly n Movement
\* records, one per line in line order, each IN, each with the line's item in
\* productId and no fgId, the line's quantity, and the id of the GRN's Bill
\* record as billId.
C7_GRNMovements ==
    \A c \in Clients :
        (pc[c].flow = "grn" /\ pc[c].step = "finish") =>
            LET items == pc[c].items
                n == Len(items)
                added == store.stockMovements \ pc[c].before.stockMovements
            IN  /\ pc[c].before.stockMovements \subseteq store.stockMovements
                /\ Cardinality(added) = n
                /\ Len(pc[c].moves) = n
                /\ {m.id : m \in added} = Range(pc[c].moves)
                /\ \A j, k \in 1..n : j < k => IdLess(pc[c].moves[j], pc[c].moves[k])
                /\ \A k \in 1..n :
                      \E m \in added :
                          /\ m.id = pc[c].moves[k]
                          /\ m.type = "IN"
                          /\ m.productId = items[k].productId
                          /\ m.fgId = Undefined
                          /\ m.quantity = items[k].qty
                          /\ m.billId = pc[c].docId
                /\ \E b \in store.bills \ pc[c].before.bills : b.id = pc[c].docId

\* a GRN of two lines of different quantities has written all its movements
C7_Witness ==
    \E c \in Clients :
        /\ pc[c].flow = "grn" /\ pc[c].step = "finish"
        /\ Len(pc[c].items) = 2
        /\ pc[c].items[1].qty # pc[c].items[2].qty

\* C8: a Delivery Note of n lines that passed validation and whose writes all
\* succeeded added exactly one DeliveryNote record and exactly n Movement
\* records, each OUT and each naming the line's item in fgId, and the balance
\* of each finished good went down by the sum of the quantities of the lines
\* that name it.
C8_DNMovements ==
    \A c \in Clients :
        (pc[c].flow = "dn" /\ pc[c].step = "finish") =>
            LET items == pc[c].items
                n == Len(items)
                added == store.stockMovements \ pc[c].before.stockMovements
                notes == store.deliveryNotes \ pc[c].before.deliveryNotes
            IN  /\ pc[c].before.deliveryNotes \subseteq store.deliveryNotes
                /\ Cardinality(notes) = 1
                /\ \A d \in notes : d.id = pc[c].docId
                /\ pc[c].before.stockMovements \subseteq store.stockMovements
                /\ Cardinality(added) = n
                /\ {m.id : m \in added} = Range(pc[c].moves)
                /\ \A k \in 1..n :
                      \E m \in added :
                          /\ m.id = pc[c].moves[k]
                          /\ m.type = "OUT"
                          /\ m.fgId = items[k].productId
                          /\ m.productId = Undefined
                          /\ m.quantity = items[k].qty
                /\ \A f \in FGIds :
                      StoreBalance(store, f, TRUE)
                         = StoreBalance(pc[c].before, f, TRUE) - LineSum(items, f)

\* a Delivery Note with two lines naming the same finished good is written
C8_Witness ==
    \E c \in Clients :
        /\ pc[c].flow = "dn" /\ pc[c].step = "finish"
        /\ Len(pc[c].items) = 2
        /\ pc[c].items[1].productId = pc[c].items[2].productId

\* C9: a Production of quantity q of finished good F whose writes succeeded
\* wrote exactly one Production record and exactly one Movement (IN, fgId = F,
\* quantity q), no movement naming a raw material, and left the balance of
\* every raw material as it was.
C9_ProductionMovement ==
    \A c \in Clients :
        (pc[c].flow = "prod" /\ pc[c].step = "finish") =>
            LET F == pc[c].items[1].productId
                q == pc[c].items[1].qty
                added == store.stockMovements \ pc[c].before.stockMovements
                made == store.productions \ pc[c].before.productions
            IN  /\ pc[c].before.productions \subseteq store.productions
                /\ Cardinality(made) = 1
                /\ \A d \in made : d.id = pc[c].docId /\ d.fgId = F /\ d.quantity = q
                /\ pc[c].before.stockMovements \subseteq store.stockMovements
                /\ Cardinality(added) = 1
                /\ \A m \in added :
                      /\ m.type = "IN" /\ m.fgId = F /\ m.quantity = q
                      /\ ~IsSet(m.productId)
                /\ \A r \in RMIds :
                      StoreBalance(store, r, FALSE) = StoreBalance(pc[c].before, r, FALSE)

\* a Production of more than one unit is written while a raw material has stock
C9_Witness ==
    \E c \in Clients :
        /\ pc[c].flow = "prod" /\ pc[c].step = "finish"
        /\ pc[c].items[1].qty > 1
        /\ \E r \in RMIds : StoreBalance(store, r, FALSE) > 0

\* C10: in every reachable state every Movement record of the store has exactly
\* one of productId and fgId set, never both and never neither, and a quantity
\* above 0, whichever flow wrote it.
C10_OneClassPositiveQuantity ==
    \A m \in store.stockMovements :
        /\ IsSet(m.productId) # IsSet(m.fgId)
        /\ m.quantity > 0

\* the store holds a movement written by a GRN and an issue of a finished good
C10_Witness ==
    \E a, b \in store.stockMovements :
        /\ a.billId # NoId /\ a.id[1] > 0
        /\ b.type = "OUT" /\ IsSet(b.fgId) /\ b.id[1] > 0

\* C11: the movement and the audit-log collections are append-only: a Movement
\* or AuditLog record present under a key is present, with the same field
\* values, in every later state of the store.
C11_AppendOnly ==
    [][/\ store.stockMovements \subseteq store'.stockMovements
       /\ store.auditLogs \subseteq store'.auditLogs]_vars

\* the collection a flow writes its primary document to
DocColl(flow) ==
    CASE flow = "grn" -> "bills" [] flow = "dn" -> "deliveryNotes" [] OTHER -> "productions"

\* the store holds a record with this id in the collection
Holds(coll, id) == \E d \in coll : d.id = id

\* C12: when a movement write of a GRN, Delivery Note or Production flow is
\* refused after the document was written, the store is left as it was: the
\* document and the movements already written stay (no rollback), fewer
\* movements than lines are written, and the flow writes nothing more (no retry).
C12_NoRollback ==
    [][\A c \in Clients :
          /\ (pc[c].step = "moves" /\ pc'[c].step = "threw") =>
                /\ store' = store
                /\ Holds(store'[DocColl(pc[c].flow)], pc[c].docId)
                /\ \A k \in 1..Len(pc[c].moves) : Holds(store'.stockMovements, pc[c].moves[k])
                /\ Len(pc[c].moves) < Len(pc[c].items)
          /\ pc[c].step = "threw" => store' = store
          /\ \A coll \in {"bills", "deliveryNotes", "productions", "stockMovements"} :
                store[coll] \subseteq store'[coll]]_vars

\* a GRN ended on a refused write and its bill has some, but not all, of the
\* movements of its lines
C12_Witness ==
    \E c \in Clients :
        /\ pc[c].flow = "grn" /\ pc[c].step = "threw"
        /\ \E b \in store.bills :
              LET n == Cardinality({m \in store.stockMovements : m.billId = b.id})
              IN  0 < n /\ n < Len(b.items)

\* the action tag of a flow and the entity its audit entry names
AuditTag(flow) ==
    CASE flow = "rmIn" -> "RM_STOCK_IN" [] flow = "rmOut" -> "RM_STOCK_OUT"
      [] flow = "fgIn" -> "FG_STOCK_IN" [] flow = "fgOut" -> "FG_STOCK_OUT"
      [] flow = "grn" -> "GRN_ADD" [] flow = "dn" -> "DN_ADD" [] OTHER -> "PRODUCTION_ADD"

AuditEntity(c) ==
    IF pc[c].flow \in {"grn", "dn", "prod"} THEN pc[c].docId ELSE pc[c].items[1].productId

\* the handler of client c, which has written a record, ends in this step
EndsAfterWrite(c) == pc[c].step \in {"moves", "finish"} /\ pc'[c].step \in {"done", "threw"}

\* C13: an operation that wrote at least one record ends with exactly one new
\* audit-log entry, which carries the operation's action tag, the target entity
\* id and the acting user's name.
C13_OneAuditEntry ==
    [][\A c \in Clients :
          EndsAfterWrite(c) =>
              LET new == store'.auditLogs \ store.auditLogs
              IN  /\ Cardinality(new) = 1
                  /\ \A l \in new : /\ l.action = AuditTag(pc[c].flow)
                                     /\ l.entityId = AuditEntity(c)
                                     /\ l.by = Username(pc[c].user)]_vars

\* C14: a handler that has made all its document and movement writes ends as
\* successful whatever becomes of the audit-log write: when that write is refused
\* the store is left as it was, with the document and the movements of the flow
\* in it, the success notification is shown and no error is reported.
C14_AuditFailureIgnored ==
    [][\A c \in Clients :
          (pc[c].step = "finish" /\ pc'[c] # pc[c]) =>
              /\ pc'[c].step = "done" /\ pc'[c].toast = "success"
              /\ \A k \in 1..Len(pc[c].moves) : Holds(store'.stockMovements, pc[c].moves[k])
              /\ pc[c].flow \in {"grn", "dn", "prod"} =>
                    Holds(store'[DocColl(pc[c].flow)], pc[c].docId)
              /\ ~pc'[c].logged => store' = store]_vars

\* a flow is shown as successful and its audit-log write was refused
C14_Witness ==
    \E c \in Clients :
        /\ pc[c].step = "done" /\ pc[c].toast = "success" /\ ~pc[c].logged
        /\ \E k \in 1..Len(generated) : generated[k].kind = "log" /\ ~generated[k].ok

DocFlows == {"grn", "dn", "prod"}

\* the records a step adds to the store
NewRecords ==
    UNION {store'[coll] \ store[coll] :
              coll \in {"bills", "deliveryNotes", "productions", "stockMovements", "auditLogs"}}

\* the writes client c's issuance flow has made so far: the document, then the
\* movements of the first idx - 1 lines in line order, and no audit entry yet
InOrder(c) ==
    (pc[c].flow \in DocFlows /\ pc[c].step \in {"moves", "finish"}) =>
        /\ Holds(store[DocColl(pc[c].flow)], pc[c].docId)
        /\ Len(pc[c].moves) = pc[c].idx - 1
        /\ (pc[c].step = "finish") = (pc[c].idx = Len(pc[c].items) + 1)
        /\ \A k \in 1..Len(pc[c].moves) :
              /\ \E m \in store.stockMovements :
                    /\ m.id = pc[c].moves[k]
                    /\ ClassKey(m, pc[c].flow \in FGFlows) = pc[c].items[k].productId
                    /\ m.quantity = pc[c].items[k].qty
              /\ IdLess(IF k = 1 THEN pc[c].docId ELSE pc[c].moves[k - 1], pc[c].moves[k])
        /\ ~\E l \in store.auditLogs :
              l.action = AuditTag(pc[c].flow) /\ l.entityId = pc[c].docId

\* C15: the writes of one issuance flow are made one at a time, in the order
\* document, one movement per line in line order, audit entry: no step adds more
\* than one record, at every await the document and exactly the movements of the
\* earlier lines are in the store and the audit entry is not, and the success
\* notification appears only once the document and all movements are persisted.
C15_WritesInOrder ==
    [][/\ Cardinality(NewRecords) <= 1
       /\ \A c \in Clients :
             /\ InOrder(c)
             /\ InOrder(c)'
             /\ (pc'[c].toast = "success" /\ pc[c].toast # "success") =>
                   /\ pc[c].step = "finish"
                   /\ pc[c].flow \in DocFlows =>
                         /\ Holds(store'[DocColl(pc[c].flow)], pc[c].docId)
                         /\ Len(pc[c].moves) = Len(pc[c].items)
                   /\ \A k \in 1..Len(pc[c].moves) :
                         Holds(store'.stockMovements, pc[c].moves[k])]_vars

\* a GRN of two lines between its two movement writes
C15_Witness ==
    \E c \in Clients :
        /\ pc[c].flow = "grn" /\ pc[c].step = "moves"
        /\ Len(pc[c].items) = 2 /\ pc[c].idx = 2
        /\ Holds(store.bills, pc[c].docId)
        /\ Holds(store.stockMovements, pc[c].moves[1])

\* C16: the id generated for a document or a movement differs from every id
\* generated before it by any client, and the store holds one movement for each
\* successful movement write on top of the opening ledger.
C16_FreshIds ==
    /\ \A k \in 1..Len(generated) :
          generated[k].kind \in {"doc", "move"} =>
              \A j \in 1..(k - 1) : generated[j].id # generated[k].id
    /\ Cardinality(store.stockMovements) =
          Cardinality(OpeningLedger)
            + Cardinality({k \in 1..Len(generated) : generated[k].kind = "move" /\ generated[k].ok})

\* the permission string of a flow
Permission(flow) ==
    CASE flow = "rmIn" -> "rm:stockin" [] flow = "rmOut" -> "rm:stockout"
      [] flow = "fgIn" -> "fg:stockin" [] flow = "fgOut" -> "fg:stockout"
      [] flow = "grn" -> "boe:create" [] flow = "dn" -> "dn:create" [] OTHER -> "prod:create"

\* C17: a session writes a movement or a document only when a user is logged
\* in and the permission list of the user's role holds the permission string of
\* the flow, or "*".
C17_WritesNeedPermission ==
    [][\A c \in Clients :
          (/\ pc'[c] # pc[c]
           /\ \E coll \in {"bills", "deliveryNotes", "productions", "stockMovements"} :
                 store'[coll] # store[coll]) =>
              /\ currentUser[c] # NoUser
              /\ can(currentUser[c], Permission(pc'[c].flow))]_vars

\* the series has 14 entries with numeric totals, and the totals of a day on
\* which no movement is dated are 0
SeriesFilled(movements, n) ==
    LET series == chartData(movements, n)
    IN  /\ DOMAIN series = 1..14
        /\ \A i \in DOMAIN series :
              /\ {"in", "out"} \subseteq DOMAIN series[i]
              /\ series[i].in \in Nat /\ series[i].out \in Nat
              /\ (\A k \in DOMAIN movements : movements[k].date # last14Days(n)[i]) =>
                    series[i].in = 0 /\ series[i].out = 0

\* the entries stand for consecutive days, one entry each
OnePerDay(n) == \A i \in 1..13 : last14Days(n)[i + 1] = last14Days(n)[i] + 1

\* C18: for every movement list the dashboard's series has exactly 14 entries,
\* one for each day of the window, each with numeric in and out totals, and the
\* entry of a day on which no movement is dated has in = 0 and out = 0.
C18_SeriesOnePerDay ==
    \A c \in Clients : SeriesFilled(cache[c].movements, now) /\ OnePerDay(now)

\* the documents of a cache that are dated d, each named by its list and place
DocsDated(c_cache, d) ==
    {<<"bills", k>> : k \in {j \in DOMAIN c_cache.bills : c_cache.bills[j].date = d}}
      \cup {<<"deliveryNotes", k>> :
               k \in {j \in DOMAIN c_cache.deliveryNotes : c_cache.deliveryNotes[j].date = d}}
      \cup {<<"productions", k>> :
               k \in {j \in DOMAIN c_cache.productions : c_cache.productions[j].date = d}}

\* C19: 'documents issued today' is the number of bills, delivery notes and
\* productions whose date equals the current date; a document of any other day,
\* yesterday and tomorrow included, is not counted.
C19_DocsToday ==
    \A c \in Clients : docsToday(cache[c], now) = Cardinality(DocsDated(cache[c], todayISO(now)))

\* a dashboard rendered over a bill of yesterday, a delivery note of today and a
\* production of tomorrow shows 1
C19_Witness ==
    \E c \in Clients :
        /\ \E b \in Range(cache[c].bills) : b.date = todayISO(now) - 1
        /\ \E d \in Range(cache[c].deliveryNotes) : d.date = todayISO(now)
        /\ \E p \in Range(cache[c].productions) : p.date = todayISO(now) + 1
        /\ dashboard[c] = renderDashboardAt(cache[c], now)
        /\ dashboard[c].docsToday = 1

\* C20: a flow whose handler ran has ended with a notification: the error
\* notification when a check of the handler failed or a document or movement write
\* was refused, the success notification when every such write succeeded.  (A form
\* the browser's own validation held back never reached its handler.)
C20_EndsWithNotification ==
    \A c \in Clients :
        /\ pc[c].step = "done" => pc[c].toast = "success"
        /\ pc[c].step = "threw" => pc[c].toast = "error"
        /\ (pc[c].step = "rejected" /\ pc[c].why # "form") => pc[c].toast = "error"

\* the movements a store holds, one for each id: those of stockMovements, and
\* those of the fgMovements node whose id stockMovements does not hold
StoreMovements(data) ==
    data.stockMovements
      \cup {m \in data.fgMovements : \A x \in data.stockMovements : x.id # m.id}

\* the list holds exactly the movements of the store, each id once
Mirrors(l, data) ==
    /\ Range(l) = StoreMovements(data)
    /\ \A j, k \in DOMAIN l : j # k => l[j].id # l[k].id
    /\ {l[k].id : k \in DOMAIN l} = {m.id : m \in data.stockMovements \cup data.fgMovements}

\* C21: a push delivered to a logged-in client leaves in its cache exactly the
\* movements the store holds at that time, each id once, and so the balances of
\* the store's movements; a client that logs in again with the cache of an
\* earlier subscription is delivered the list it already holds.
C21_CacheMirrorsStore ==
    [][\A c \in Clients :
          /\ cache'[c] # cache[c] =>
                /\ currentUser[c] # NoUser
                /\ Mirrors(cache'[c].movements, store')
                /\ \A i \in ItemIds, isFG \in BOOLEAN :
                      computeBalance(cache'[c].movements, i, isFG)
                        = SignedSum(StoreMovements(store'), i, isFG)
          /\ (currentUser[c] = NoUser /\ currentUser'[c] # NoUser /\ cache[c] # EmptyCache) =>
                /\ MergeMovements(store') = cache[c].movements
                /\ \A i \in ItemIds, isFG \in BOOLEAN :
                      computeBalance(MergeMovements(store'), i, isFG)
                        = computeBalance(cache[c].movements, i, isFG)]_vars

\* a client that has logged out holds the list of its subscription: the movements
\* of a ledger and of an fgMovements node, one of whose ids the ledger holds too
C21_Witness ==
    \E c \in Clients :
        /\ currentUser[c] = NoUser
        /\ cache[c] # EmptyCache
        /\ Len(cache[c].movements) >= 2
        /\ \E m \in store.fgMovements : \E x \in store.stockMovements : x.id = m.id
        /\ Mirrors(cache[c].movements, store)

\* the Stock-Out form of the item's class, submitted by client c for quantity q
SubmitOut(c, i, isFG, q) ==
    IF isFG THEN FGOut_handleStockOut(c, i, q, 1, 0) ELSE RMOut_handleStockOut(c, i, q, 1, 0)

\* a request of exactly the cached balance of an item is accepted and a request
\* of one more is refused with the error notification, in the Stock-Out forms and
\* as the single line of a Delivery Note
ExactBalanceAccepted ==
    \A c \in Clients, isFG \in BOOLEAN, i \in RMIds \cup FGIds :
        LET bal == computeBalance(cache[c].movements, i, isFG)
            line(q) == <<[productId |-> i, qty |-> q]>>
        IN  (/\ Displayed(c) /\ Room(c, 3)
             /\ i \in Options(IF isFG THEN cache[c].fgProducts ELSE cache[c].rmProducts)
             /\ bal >= 1) =>
                /\ ENABLED (SubmitOut(c, i, isFG, bal) /\ pc'[c].step \in {"finish", "threw"})
                /\ ~ENABLED (SubmitOut(c, i, isFG, bal) /\ pc'[c].step = "rejected")
                /\ ENABLED (SubmitOut(c, i, isFG, bal + 1)
                              /\ pc'[c].step = "rejected" /\ pc'[c].toast = "error")
                /\ ~ENABLED (SubmitOut(c, i, isFG, bal + 1) /\ pc'[c].step # "rejected")
                /\ isFG =>
                      /\ ENABLED (DN_handleSubmit(c, line(bal), 1, 0)
                                    /\ pc'[c].step \in {"moves", "threw"})
                      /\ ~ENABLED (DN_handleSubmit(c, line(bal), 1, 0) /\ pc'[c].step = "rejected")
                      /\ ~ENABLED (DN_handleSubmit(c, line(bal + 1), 1, 0)
                                     /\ pc'[c].step # "rejected")

\* C22: a Stock-Out or Delivery Note line that asks for exactly the cached
\* balance is accepted and one that asks for one more is refused; once the
\* movements of an accepted flow are written, an item of which a line asked for
\* the whole balance the store held at submission has the balance 0.
C22_ExactBalance ==
    [][/\ ExactBalanceAccepted
       /\ \A c \in Clients :
             (pc'[c].step = "finish" /\ pc[c].step # "finish" /\ pc'[c].flow \in OutFlows) =>
                 \A k \in DOMAIN pc'[c].items :
                     LET i == pc'[c].items[k].productId
                         isFG == pc'[c].flow \in FGFlows
                     IN  pc'[c].items[k].qty = StoreBalance(pc'[c].before, i, isFG) =>
                             StoreBalance(store', i, isFG) = 0]_vars

\* the movements a Stock-In, a Stock-Out or a Production writes at the instant n
WrittenNow(n) ==
    { StampedMovement(n, genId(1, 0), k[1], k[2], t, q, "alice") :
        k \in {<<RMProducts[1].id, Undefined>>, <<Undefined, FGProducts[1].id>>},
        t \in {"IN", "OUT"}, q \in 1..MaxQty }

\* sum of the quantities of the movements of l dated d of direction t
RECURSIVE DayTotalOver(_, _)
DayTotalOver(l, K) ==
    IF K = {} THEN 0
    ELSE LET k == CHOOSE x \in K : TRUE IN Quantity(l[k]) + DayTotalOver(l, K \ {k})

DayTotal(l, d, t) == DayTotalOver(l, {k \in DOMAIN l : l[k].date = d /\ l[k].type = t})

\* the window is the 14 consecutive dates that end at the date the flows stamp
EndsToday(n) == \A i \in 1..Window : last14Days(n)[i] = todayISO(n) - (Window - i)

\* C23: the window of a series computed now is the 14 consecutive dates ending
\* at the date Stock-In, Stock-Out and Production stamp on their movements, and
\* a movement written now by one of them (RM or FG) is counted with its quantity
\* under its direction in the last entry of a series computed at the same instant.
C23_WindowEndsToday ==
    \A c \in Clients :
        /\ EndsToday(now)
        /\ \A m \in WrittenNow(now) :
              LET l == Append(cache[c].movements, m)
                  series == chartData(l, now)
              IN  /\ series[Window].in = DayTotal(l, todayISO(now), "IN")
                  /\ series[Window].out = DayTotal(l, todayISO(now), "OUT")

\* the cache of client c holds exactly the movements of the store
UpToDate(c) == Range(cache[c].movements) = store.stockMovements \cup store.fgMovements

\* C24: with one client, no failed write and a cache that holds every earlier
\* write, a Delivery Note that passes validation asks, over all its lines that
\* name a finished good, for no more than the store's balance of it, so that the
\* balance left once the movements of its lines are written is not below 0.
C24_DeliveryWithinBalance ==
    [][\A c \in Clients :
          (/\ Accepted(c) /\ pc'[c].flow = "dn"
           /\ UpToDate(c) /\ failures = 0
           /\ \A i \in FGIds : StoreBalance(store, i, TRUE) >= 0) =>
              \A i \in FGIds :
                  StoreBalance(store, i, TRUE) - LineSum(pc'[c].items, i) >= 0]_vars

\* One operator at one client, the four stock forms, from an empty ledger or
\* from the ledger three Stock-Ins have left.  Each form is submitted once the
\* subscription has delivered every earlier write.
InitStock ==
    /\ clock = 0
    /\ store \in {EmptyStore, [EmptyStore EXCEPT !.stockMovements = OpeningLedger]}
    /\ currentUser = [c \in Clients |-> NoUser]
    /\ cache = [c \in Clients |-> EmptyCache]
    /\ dashboard = [c \in Clients |-> renderDashboard(EmptyCache)]
    /\ pc = [c \in Clients |-> Idle]
    /\ failures = 0
    /\ generated = <<>>
    /\ now = Noon
    /\ currentPage = [c \in Clients |-> "dashboard"]
    /\ users = [c \in Clients |-> store.users]

StockInFresh(c) ==
    \E qty \in QtyInputs, dt \in Elapsed, r \in Suffixes :
        \/ \E sel \in Options(RMProducts) : UpToDate(c) /\ RMIn_handleStockIn(c, sel, qty, dt, r)
        \/ \E sel \in Options(FGProducts) : UpToDate(c) /\ FGIn_handleStockIn(c, sel, qty, dt, r)
        \/ RMIn_resume(c, dt, r)
        \/ FGIn_resume(c, dt, r)

StockOutFresh(c) ==
    \E qty \in QtyInputs, dt \in Elapsed, r \in Suffixes :
        \/ \E sel \in Options(RMProducts) : UpToDate(c) /\ RMOut_handleStockOut(c, sel, qty, dt, r)
        \/ \E sel \in Options(FGProducts) : UpToDate(c) /\ FGOut_handleStockOut(c, sel, qty, dt, r)
        \/ RMOut_resume(c, dt, r)
        \/ FGOut_resume(c, dt, r)

NextStock == \E c \in {"c1"} : Session(c) \/ StockInFresh(c) \/ StockOutFresh(c)

SpecStock == InitStock /\ [][NextStock]_vars

\* C25: with one client whose cache holds every earlier write, from an empty
\* ledger every sequence of RM/FG Stock-In and Stock-Out submissions keeps the
\* balance of every item, under either class, in the store and in the cache,
\* greater than or equal to 0.
C25_StockNeverNegative ==
    \A i \in ItemIds, isFG \in BOOLEAN :
        /\ StoreBalance(store, i, isFG) >= 0
        /\ \A c \in Clients : computeBalance(cache[c].movements, i, isFG) >= 0

\* an item was received and issued down to 0, and a further issue of it was refused
C25_Witness ==
    \E c \in Clients, i \in RMIds \cup FGIds :
        /\ \E m \in store.stockMovements : m.type = "OUT" /\ i \in {m.productId, m.fgId}
        /\ StoreBalance(store, i, i \in FGIds) = 0
        /\ pc[c].step = "rejected" /\ pc[c].why = "balance"

StockFlows == {"rmIn", "fgIn", "rmOut", "fgOut"}

\* C26: a Stock-In or Stock-Out whose write succeeded added exactly one movement
\* to the store and nothing else, and in a cache that reflects it the balance of
\* the item under its own class is higher (Stock-In) or lower (Stock-Out) by
\* exactly the quantity, while the balance of every other item and every
\* balance under the other class is as before.
C26_StockFrame ==
    [][\A c \in Clients :
          (Accepted(c) /\ pc'[c].flow \in StockFlows) =>
              LET X == pc'[c].items[1].productId
                  q == pc'[c].items[1].qty
                  own == pc'[c].flow \in FGFlows
                  signed == IF pc'[c].flow \in OutFlows THEN -q ELSE q
                  was == Snapshot(store).movements
                  is == Snapshot(store').movements
              IN  /\ store.stockMovements \subseteq store'.stockMovements
                  /\ Cardinality(store'.stockMovements \ store.stockMovements) = 1
                  /\ [store' EXCEPT !.stockMovements = store.stockMovements] = store
                  /\ Len(is) = Len(was) + 1
                  /\ q > 0
                  /\ \A i \in ItemIds, isFG \in BOOLEAN :
                        computeBalance(is, i, isFG) =
                            computeBalance(was, i, isFG)
                              + (IF i = X /\ isFG = own THEN signed ELSE 0)]_vars

\* a raw material was received and a finished good issued, each by its stock
\* form, while stock of other items of both classes was held
C26_Witness ==
    \E c \in Clients :
        /\ pc[c].step = "finish" /\ pc[c].flow = "fgOut" /\ pc[c].items[1].qty > 1
        /\ \E m \in store.stockMovements \ pc[c].before.stockMovements :
              m.type = "OUT" /\ m.fgId = pc[c].items[1].productId
        /\ \E m \in store.stockMovements : m.type = "IN" /\ m.id[1] > 0 /\ IsSet(m.productId)
        /\ \E i \in FGIds : i # pc[c].items[1].productId /\ StoreBalance(store, i, TRUE) > 0

\* C27: a refused document or movement write ends its flow: the step writes
\* nothing and shows no success toast, the flow's audit entry is not in the
\* store, and until the operator submits again nothing more is written and no
\* id is generated; a bill named by an audit entry has a movement for each line.
C27_NothingAfterFailure ==
    [][\A c \in Clients :
          /\ (pc'[c] # pc[c] /\ failures' # failures /\ pc[c].step \in {"idle", "moves"}) =>
                /\ pc'[c].step = "threw"
                /\ pc'[c].toast # "success"
                /\ store' = store
          /\ (pc[c].step = "moves" /\ pc'[c].step = "threw") =>
                \A l \in store'.auditLogs :
                    ~(l.action = AuditTag(pc[c].flow) /\ l.entityId = pc[c].docId)
          /\ pc[c].step = "threw" =>
                /\ store' = store
                /\ generated' = generated
                /\ pc'[c].step \in {"threw", "idle"}
          /\ \A l \in store'.auditLogs : l.action = "GRN_ADD" =>
                \A b \in store'.bills : b.id = l.entityId =>
                    Cardinality({m \in store'.stockMovements : m.billId = b.id}) = Len(b.items)]_vars

\* a Delivery Note of two lines ended on the refused write of its second line:
\* the note and one movement are in the store, and no audit entry
C27_Witness ==
    \E c \in Clients :
        /\ pc[c].flow = "dn" /\ pc[c].step = "threw"
        /\ \E d \in store.deliveryNotes : Len(d.items) = 2
        /\ \E m \in store.stockMovements : m.type = "OUT" /\ m.id[1] > 0
        /\ store.auditLogs = {}

\* One browser used by either account in turn: login, logout (also while a
\* handler is between two awaits), and the forms that issue stock.
AnyLogin(c) == \E u \in Range(Users) : handleLogin(c, u.username, u.password)

NextSession ==
    \E c \in {"c1"} :
        AnyLogin(c) \/ handleLogout(c) \/ onValue(c) \/ dismiss(c) \/ StockOut(c) \/ Delivery(c)

SpecSession == Init /\ [][NextSession]_vars

\* the creator a record names
Creator(rec) == IF "createdBy" \in DOMAIN rec THEN rec.createdBy ELSE rec.by

\* C28: a form is submitted only while a user is logged in; the document or
\* movement its handler writes first names that user, and every record the
\* handler writes afterwards, the audit entry included, names the same user,
\* whoever is logged in by then; no record of the store names 'unknown'.
C28_CreatorIsSubmitter ==
    [][\A c \in Clients :
          /\ (Submits(c) /\ pc'[c].flow # "login") => currentUser[c] # NoUser
          /\ Accepted(c) =>
                /\ pc'[c].user = currentUser[c]
                /\ NewRecords # {}
                /\ \A rec \in NewRecords : Creator(rec) = currentUser[c].username
          /\ (InFlight(c) /\ pc'[c] # pc[c]) =>
                /\ \A rec \in NewRecords : Creator(rec) = pc[c].user.username
                /\ InFlight(c)' => pc'[c].user = pc[c].user
          /\ \A coll \in {"bills", "deliveryNotes", "productions", "stockMovements", "auditLogs"} :
                \A rec \in store'[coll] : Creator(rec) \notin {"unknown", ""}]_vars

\* bob's Delivery Note got its audit entry after bob logged out and alice logged in
C28_Witness ==
    \E c \in Clients :
        /\ currentUser[c] # NoUser /\ currentUser[c].username = "alice"
        /\ \E l \in store.auditLogs : l.action = "DN_ADD" /\ l.by = "bob"
        /\ pc[c].step = "done" /\ pc[c].flow = "dn"

\* Two browsers from their first render: the store holds no user or the two
\* accounts, the users state is still empty, nobody is logged in.
InitAuth ==
    /\ clock = 0
    /\ store \in {[EmptyStore EXCEPT !.users = <<>>], EmptyStore}
    /\ currentUser = [c \in Clients |-> NoUser]
    /\ cache = [c \in Clients |-> EmptyCache]
    /\ dashboard = [c \in Clients |-> renderDashboard(EmptyCache)]
    /\ pc = [c \in Clients |-> Idle]
    /\ failures = 0
    /\ generated = <<>>
    /\ now = Noon
    /\ currentPage = [c \in Clients |-> "dashboard"]
    /\ users = [c \in Clients |-> <<>>]

\* what is typed into the login form: the first-time pair, an account's pair, a
\* wrong password
Credentials ==
    {<<"admin", "admin">>, <<"alice", "pa">>, <<"bob", "pb">>, <<"alice", "admin">>}

LoginWith(c) == \E f \in Credentials : handleLogin(c, f[1], f[2])

Navigate(c) == \E page \in Pages : SidebarItem(c, page)

NextAuth ==
    \E c \in Clients :
        onUsers(c) \/ LoginWith(c) \/ handleLogout(c) \/ Navigate(c) \/ onValue(c) \/ dismiss(c)

SpecAuth == InitAuth /\ [][NextAuth]_vars

\* C29: whatever logins, sidebar clicks and logouts went before, the
\* user-management page is on screen only for a session whose role grants
\* 'users:manage', that is, only for a user with the role admin.
C29_UsersPageAdminOnly ==
    \A c \in Clients :
        Screen(c) = "users" =>
            /\ can(currentUser[c], "users:manage")
            /\ currentUser[c].role = "admin"

\* a login succeeds in this step at client c
LogsIn(c) == currentUser[c] = NoUser /\ currentUser'[c] # NoUser

\* C30: the first-time login (admin / admin, role admin) succeeds only while the
\* store holds no user record; while the store holds a user, a login succeeds
\* only as a stored user, with that user's username and password, whether or
\* not the first snapshot of the users subscription has been delivered.
C30_FirstTimeLoginOnlyWhenEmpty ==
    [][\A c \in Clients :
          LogsIn(c) =>
              /\ (currentUser'[c] = adminUser /\ adminUser \notin Range(store.users)) =>
                    Len(store.users) = 0
              /\ Len(store.users) > 0 => currentUser'[c] \in Range(store.users)]_vars

====
